---------------------------- MODULE Spec2Model ----------------------------
(***************************************************************************)
(* A model of aria2p's HTOP-like interface (src/src/aria2p/interface.py):  *)
(* the Interface object's fields, its keyboard and mouse handlers, the     *)
(* data/rows refresh, the column bounds and the frame loop of run(), plus  *)
(* the HorizontalScroll writer.                                            *)
(*                                                                         *)
(* Python values are represented as follows.  None is the empty tuple and  *)
(* an object reference r is the one-element tuple <<r>> (follow,           *)
(* last_remove_choice, width and height before the first set_screen, the   *)
(* event local of run).  Lists are sequences; a Python index i is the      *)
(* sequence index i + 1, negative indexes counting from the end as Python  *)
(* does.  A method is an operator from the object's fields (a record) to   *)
(* an outcome: the fields after the call, the collaborator calls it made   *)
(* and the exception it raised, if any.                                    *)
(***************************************************************************)
EXTENDS Integers, Sequences, FiniteSets, TLC

VARIABLES
    self,           \* the Interface object's fields
    pc,             \* position of run() in its loops
    event,          \* run()'s local `event`
    previous_sort,  \* run()'s local `previous_sort`
    result,         \* run()'s return value, None while it runs
    daemon,         \* the downloads the collaborator would list now
    calls,          \* collaborator calls made by the last processed event
    error,          \* exception raised by the last step ("none" if none)
    scroller,       \* a HorizontalScroll object's fields
    printed,        \* ghost: total length of the texts given to print_at
    written,        \* ghost: sum of the values print_at returned
    base,           \* ghost: the value last given to set_scroll
    shown,          \* ghost: task orders displayed after each re-sort
    since           \* ghost: frames completed since the data was last fetched

vars == <<self, pc, event, previous_sort, result, daemon, calls, error,
          scroller, printed, written, base, shown, since>>

(***************************************************************************)
(* Bounds of the model.                                                    *)
(***************************************************************************)
\* Interface.frames is 200 in the source; the cycle is scaled down.
frames == 2
MaxTasks == 3
MaxHeight == 3
MaxRows == 5
MaxListed == 2
MaxSorted == 3
MaxKey == 3
MaxToggles == 3
NarrowWidth == 80
MaxWidth == 90
MaxScroll == 9
MaxTextLen == 4
MaxPrinted == 12
MaxXScroll == 16

(***************************************************************************)
(* Python helpers.                                                         *)
(***************************************************************************)
None == <<>>

Some(x) == <<x>>

Min(a, b) == IF a < b THEN a ELSE b

Max(a, b) == IF a > b THEN a ELSE b

RECURSIVE MaxOf(_)
MaxOf(seq) ==
    IF Len(seq) = 1 THEN seq[1] ELSE Max(seq[1], MaxOf(Tail(seq)))

\* seq[i] is defined in Python iff -len <= i < len
PyHas(seq, i) == -Len(seq) <= i /\ i < Len(seq)

PyAt(seq, i) == IF i >= 0 THEN seq[i + 1] ELSE seq[Len(seq) + i + 1]

(***************************************************************************)
(* Interface.State (lines 211-216).                                        *)
(***************************************************************************)
MAIN == 0
HELP == 1
SETUP == 2
REMOVE_ASK == 3
SELECT_SORT == 4

(***************************************************************************)
(* Keys (lines 42-69): each action and the names of its shortcut keys.     *)
(* A keyboard event carries the name of the key pressed.                   *)
(***************************************************************************)
Keys ==
    [HELP |-> {"F1", "h"},
     SETUP |-> {"F2"},
     TOGGLE_RESUME_PAUSE |-> {"space"},
     PRIORITY_UP |-> {"F7", "u", "["},
     PRIORITY_DOWN |-> {"F8", "d", "]"},
     REVERSE_SORT |-> {"I"},
     NEXT_SORT |-> {"n", ">"},
     PREVIOUS_SORT |-> {"p", "<"},
     SELECT_SORT |-> {"F6"},
     REMOVE_ASK |-> {"F9", "del"},
     TOGGLE_EXPAND_COLLAPSE |-> {"x"},
     TOGGLE_EXPAND_COLLAPSE_ALL |-> {"X"},
     AUTOCLEAR |-> {"c"},
     FOLLOW_ROW |-> {"F"},
     SEARCH |-> {"F3", "/"},
     FILTER |-> {"F4", "\\"},
     TOGGLE_SELECT |-> {"s"},
     UN_SELECT_ALL |-> {"U"},
     QUIT |-> {"F10", "q"},
     CANCEL |-> {"esc"},
     ENTER |-> {"enter"},
     MOVE_UP |-> {"up"},
     MOVE_DOWN |-> {"down"},
     MOVE_LEFT |-> {"left"},
     MOVE_RIGHT |-> {"right"}]

KeyboardEvent(key_code) == [key_code |-> key_code, type |-> "KeyboardEvent"]

MouseEvent(x, y, buttons) ==
    [x |-> x, type |-> "MouseEvent", y |-> y, buttons |-> buttons]

LEFT_CLICK == "LEFT_CLICK"

(***************************************************************************)
(* Columns (lines 259-313).  A padding is the format spec's characters.    *)
(* A download is a record of the attributes the columns read; get_sort     *)
(* gives the attribute a column sorts by, get_text the one it displays.    *)
(***************************************************************************)
columns_order ==
    <<"gid", "status", "progress", "size", "down_speed", "up_speed", "eta", "name">>

columns ==
    [gid |-> [header |-> "GID", padding |-> <<">", "1", "6">>],
     status |-> [header |-> "STATUS", padding |-> <<"<", "9">>],
     progress |-> [header |-> "PROGRESS", padding |-> <<">", "8">>],
     size |-> [header |-> "SIZE", padding |-> <<">", "1", "1">>],
     down_speed |-> [header |-> "DOWN_SPEED", padding |-> <<">", "1", "3">>],
     up_speed |-> [header |-> "UP_SPEED", padding |-> <<">", "1", "3">>],
     eta |-> [header |-> "ETA", padding |-> <<">", "8">>],
     name |-> [header |-> "NAME", padding |-> <<"1", "0", "0", "%">>]]

NColumns == Len(columns_order)

\* the order of Python's string comparison on the status values
StatusRank(status) ==
    CASE status = "active" -> 1
      [] status = "complete" -> 2
      [] status = "error" -> 3
      [] status = "paused" -> 4
      [] status = "waiting" -> 5

get_sort(column_name, d) ==
    CASE column_name = "gid" -> d.gid
      [] column_name = "status" -> StatusRank(d.status)
      [] column_name = "progress" -> d.progress
      [] column_name = "size" -> d.total_length
      [] column_name = "down_speed" -> d.download_speed
      [] column_name = "up_speed" -> d.upload_speed
      [] column_name = "eta" -> d.eta
      [] column_name = "name" -> d.name

get_text(column_name, d) ==
    CASE column_name = "gid" -> d.gid
      [] column_name = "status" -> d.status
      [] column_name = "progress" -> d.progress
      [] column_name = "size" -> d.total_length
      [] column_name = "down_speed" -> d.download_speed
      [] column_name = "up_speed" -> d.upload_speed
      [] column_name = "eta" -> d.eta
      [] column_name = "name" -> d.name

Statuses == {"active", "waiting", "paused", "error", "complete"}

\* a download with the given identifier, status and size; its name is its gid
Download(gid, status, total_length) ==
    [gid |-> gid, status |-> status, progress |-> 0,
     eta |-> 0, name |-> gid,
     total_length |-> total_length, download_speed |-> 0, upload_speed |-> 0]

\* Download.__eq__ of the collaborator compares the identifiers
SameDownload(a, b) == a.gid = b.gid

\* the collaborator's Download.is_active, is_waiting and is_paused
is_active(d) == d.status = "active"

is_waiting(d) == d.status = "waiting"

is_paused(d) == d.status = "paused"

(***************************************************************************)
(* The side panels (lines 315-325, 643-647).                               *)
(***************************************************************************)
remove_ask_header == "Remove:"

remove_ask_rows ==
    <<[label |-> "Remove", force |-> FALSE, files |-> FALSE],
      [label |-> "Remove with files", force |-> FALSE, files |-> TRUE],
      [label |-> "Force remove", force |-> TRUE, files |-> FALSE],
      [label |-> "Force remove with files", force |-> TRUE, files |-> TRUE]>>

select_sort_header == "Select sort:"

select_sort_rows == columns_order

width_remove_ask ==
    Max(Len(remove_ask_header),
        MaxOf([i \in 1..Len(remove_ask_rows) |-> Len(remove_ask_rows[i].label)]))

width_select_sort ==
    MaxOf([i \in 1..(NColumns + 1) |->
              Len((columns_order \o <<select_sort_header>>)[i])])


(***************************************************************************)
(* Outcomes of a method: the fields after it, the collaborator calls it    *)
(* made, the exception it raised ("none" when it returned).                *)
(***************************************************************************)
Returned(s) == [self |-> s, calls |-> <<>>, exc |-> "none"]

Raised(s, exc) == [self |-> s, calls |-> <<>>, exc |-> exc]

\* a call of a collaborator method on download d; it raises when the
\* collaborator fails (ok = FALSE), and `after` are the fields once it returned
Called(s, after, method, d, ok) ==
    [self |-> IF ok THEN after ELSE s,
     calls |-> <<[gid |-> d.gid, method |-> method]>>,
     exc |-> IF ok THEN "none" ELSE "ClientException"]

(***************************************************************************)
(* Interface.follow_focused (lines 649-653): the fields after it and the   *)
(* value it returned.                                                      *)
(***************************************************************************)
follow_focused(s) ==
    IF s.focused < Len(s.data)
    THEN IF PyHas(s.data, s.focused)
         THEN [self |-> [s EXCEPT !.follow = Some(PyAt(s.data, s.focused))],
               exc |-> "none", value |-> TRUE]
         ELSE [self |-> s, exc |-> "IndexError", value |-> FALSE]
    ELSE [self |-> s, exc |-> "none", value |-> FALSE]

(***************************************************************************)
(* Interface.process_keyboard_event_main (lines 447-555).                  *)
(***************************************************************************)
MoveUpMain(s) ==
    IF s.focused > 0
    THEN LET focused == s.focused - 1
             row_offset ==
                 IF focused < s.row_offset THEN focused
                 ELSE IF focused >= s.row_offset + (s.height - 1)
                      THEN focused + 1 - (s.height - 1)
                      ELSE s.row_offset
         IN  Returned([s EXCEPT !.focused = focused, !.row_offset = row_offset,
                                !.follow = None, !.refresh = TRUE])
    ELSE Returned(s)

\* Down without the scroll of the window
MoveDownMain_NoScroll(s) ==
    IF s.focused < Len(s.rows) - 1
    THEN Returned([s EXCEPT !.focused = s.focused + 1,
                            !.follow = None, !.refresh = TRUE])
    ELSE Returned(s)

MoveDownMain(s) ==
    IF s.focused < Len(s.rows) - 1
    THEN LET focused == s.focused + 1
             row_offset ==
                 IF focused - s.row_offset >= (s.height - 1)
                 THEN focused + 1 - (s.height - 1)
                 ELSE s.row_offset
         IN  Returned([s EXCEPT !.focused = focused, !.row_offset = row_offset,
                                !.follow = None, !.refresh = TRUE])
    ELSE Returned(s)

\* Left that scrolls whatever the scroll is
MoveLeftMain_Unguarded(s) ==
    Returned([s EXCEPT !.x_scroll = s.x_scroll - 5, !.refresh = TRUE])

MoveLeftMain(s) ==
    IF s.x_scroll > 0
    THEN Returned([s EXCEPT !.x_scroll = Max(0, s.x_scroll - 5), !.refresh = TRUE])
    ELSE Returned(s)

MoveRightMain(s) ==
    Returned([s EXCEPT !.x_scroll = s.x_scroll + 5, !.refresh = TRUE])

\* the toggle with its two tests exchanged
ToggleResumePause_Swapped(s, ok) ==
    IF ~PyHas(s.data, s.focused) THEN Raised(s, "IndexError")
    ELSE LET download == PyAt(s.data, s.focused)
         IN  IF is_paused(download)
             THEN Called(s, s, "pause", download, ok)
             ELSE IF is_active(download) \/ is_waiting(download)
                  THEN Called(s, s, "resume", download, ok)
                  ELSE Returned(s)

ToggleResumePause(s, ok) ==
    IF ~PyHas(s.data, s.focused) THEN Raised(s, "IndexError")
    ELSE LET download == PyAt(s.data, s.focused)
         IN  IF is_active(download) \/ is_waiting(download)
             THEN Called(s, s, "pause", download, ok)
             ELSE IF is_paused(download)
                  THEN Called(s, s, "resume", download, ok)
                  ELSE Returned(s)

Priority(s, method, ok) ==
    IF ~PyHas(s.data, s.focused) THEN Raised(s, "IndexError")
    ELSE LET download == PyAt(s.data, s.focused)
         IN  IF ~is_active(download)
             THEN Called(s, [s EXCEPT !.follow = Some(download)], method, download, ok)
             ELSE Returned(s)

ReverseSortMain(s) ==
    Returned([s EXCEPT !.reverse = ~s.reverse, !.refresh = TRUE])

\* NextSort without the test of the last column
NextSortMain_Unguarded(s) ==
    Returned([s EXCEPT !.sort = s.sort + 1, !.refresh = TRUE])

NextSortMain(s) ==
    IF s.sort < NColumns - 1
    THEN Returned([s EXCEPT !.sort = s.sort + 1, !.refresh = TRUE])
    ELSE Returned(s)

PreviousSortMain(s) ==
    IF s.sort > 0
    THEN Returned([s EXCEPT !.sort = s.sort - 1, !.refresh = TRUE])
    ELSE Returned(s)

\* the sort panel opened over a table that is not shifted
SelectSortMain_NoShift(s) ==
    Returned([s EXCEPT !.state = SELECT_SORT, !.side_focused = s.sort,
                       !.refresh = TRUE])

SelectSortMain(s) ==
    Returned([s EXCEPT !.state = SELECT_SORT, !.side_focused = s.sort,
                       !.x_offset = width_select_sort + 1, !.refresh = TRUE])

RemoveAskMain_NoFollow(s) ==
    Returned([s EXCEPT !.state = REMOVE_ASK,
                       !.x_offset = width_remove_ask + 1,
                       !.refresh = TRUE])

RemoveAskMain(s) ==
    LET f == follow_focused(s)
    IN  IF f.exc # "none" THEN Raised(s, f.exc)
        ELSE IF f.value
             THEN Returned([f.self EXCEPT
                      !.state = REMOVE_ASK,
                      !.x_offset = width_remove_ask + 1,
                      !.side_focused =
                          IF s.last_remove_choice # None
                          THEN s.last_remove_choice[1] ELSE s.side_focused,
                      !.refresh = TRUE])
             ELSE Returned(s)

AutoClear(s, ok) ==
    [self |-> s, calls |-> <<[gid |-> 0, method |-> "autopurge"]>>,
     exc |-> IF ok THEN "none" ELSE "ClientException"]

FollowRow(s) ==
    LET f == follow_focused(s)
    IN  IF f.exc # "none" THEN Raised(s, f.exc) ELSE Returned(f.self)

process_keyboard_event_main(s, key_code, ok) ==
    IF key_code \in Keys.MOVE_UP THEN MoveUpMain(s)
    ELSE IF key_code \in Keys.MOVE_DOWN THEN MoveDownMain(s)
    ELSE IF key_code \in Keys.MOVE_LEFT THEN MoveLeftMain(s)
    ELSE IF key_code \in Keys.MOVE_RIGHT THEN MoveRightMain(s)
    ELSE IF key_code \in Keys.HELP
         THEN Returned([s EXCEPT !.state = HELP, !.refresh = TRUE])
    ELSE IF key_code \in Keys.SETUP THEN Returned(s)
    ELSE IF key_code \in Keys.TOGGLE_RESUME_PAUSE THEN ToggleResumePause(s, ok)
    ELSE IF key_code \in Keys.PRIORITY_UP THEN Priority(s, "move_up", ok)
    ELSE IF key_code \in Keys.PRIORITY_DOWN THEN Priority(s, "move_down", ok)
    ELSE IF key_code \in Keys.REVERSE_SORT THEN ReverseSortMain(s)
    ELSE IF key_code \in Keys.NEXT_SORT THEN NextSortMain(s)
    ELSE IF key_code \in Keys.PREVIOUS_SORT THEN PreviousSortMain(s)
    ELSE IF key_code \in Keys.SELECT_SORT THEN SelectSortMain(s)
    ELSE IF key_code \in Keys.REMOVE_ASK THEN RemoveAskMain(s)
    ELSE IF key_code \in Keys.TOGGLE_EXPAND_COLLAPSE THEN Returned(s)
    ELSE IF key_code \in Keys.TOGGLE_EXPAND_COLLAPSE_ALL THEN Returned(s)
    ELSE IF key_code \in Keys.AUTOCLEAR THEN AutoClear(s, ok)
    ELSE IF key_code \in Keys.FOLLOW_ROW THEN FollowRow(s)
    ELSE IF key_code \in Keys.SEARCH THEN Returned(s)
    ELSE IF key_code \in Keys.FILTER THEN Returned(s)
    ELSE IF key_code \in Keys.TOGGLE_SELECT THEN Returned(s)
    ELSE IF key_code \in Keys.UN_SELECT_ALL THEN Returned(s)
    ELSE IF key_code \in Keys.QUIT THEN Raised(s, "Exit")
    ELSE Returned(s)

(***************************************************************************)
(* The other modes' keyboard handlers (lines 557-611).                     *)
(***************************************************************************)
\* a Help mode that honours the Quit keys
process_keyboard_event_help_Quits(s, key_code) ==
    IF key_code \in Keys.QUIT THEN Raised(s, "Exit")
    ELSE Returned([s EXCEPT !.state = MAIN, !.refresh = TRUE])

process_keyboard_event_help(s, key_code) ==
    Returned([s EXCEPT !.state = MAIN, !.refresh = TRUE])

process_keyboard_event_setup(s, key_code) == Returned(s)

\* the remove call of the panel's row `row` on the followed download; `after`
\* are the fields once it returned
Removed(s, after, row, ok) ==
    [self |-> IF ok THEN after ELSE s,
     calls |-> <<[gid |-> s.follow[1].gid, force |-> row.force,
                  files |-> row.files, method |-> "remove"]>>,
     exc |-> IF ok THEN "none" ELSE "ClientException"]

\* Enter that does not force the refresh
EnterRemoveAsk_KeepsFrame(s, ok) ==
    LET done == [s EXCEPT !.last_remove_choice = Some(s.side_focused),
                          !.state = MAIN, !.x_offset = 0]
    IN  IF s.follow # None
        THEN IF ~PyHas(remove_ask_rows, s.side_focused)
             THEN Raised(s, "IndexError")
             ELSE Removed(s, [done EXCEPT !.follow = None],
                          PyAt(remove_ask_rows, s.side_focused), ok)
        ELSE Returned(done)

\* lines 570-579
EnterRemoveAsk(s, ok) ==
    LET done == [s EXCEPT !.last_remove_choice = Some(s.side_focused),
                          !.state = MAIN, !.x_offset = 0, !.frame = 0]
    IN  IF s.follow # None
        THEN IF ~PyHas(remove_ask_rows, s.side_focused)
             THEN Raised(s, "IndexError")
             ELSE Removed(s, [done EXCEPT !.follow = None],
                          PyAt(remove_ask_rows, s.side_focused), ok)
        ELSE Returned(done)

process_keyboard_event_remove_ask(s, key_code, ok) ==
    IF key_code \in Keys.CANCEL
    THEN Returned([s EXCEPT !.state = MAIN, !.x_offset = 0, !.refresh = TRUE])
    ELSE IF key_code \in Keys.ENTER THEN EnterRemoveAsk(s, ok)
    ELSE IF key_code \in Keys.MOVE_UP
    THEN IF s.side_focused > 0
         THEN Returned([s EXCEPT !.side_focused = s.side_focused - 1, !.refresh = TRUE])
         ELSE Returned(s)
    ELSE IF key_code \in Keys.MOVE_DOWN
    THEN IF s.side_focused < Len(remove_ask_rows) - 1
         THEN Returned([s EXCEPT !.side_focused = s.side_focused + 1, !.refresh = TRUE])
         ELSE Returned(s)
    ELSE Returned(s)

\* Enter that leaves the table shifted
EnterSelectSort_KeepsOffset(s) ==
    Returned([s EXCEPT !.sort = s.side_focused, !.state = MAIN, !.refresh = TRUE])

\* lines 597-601
EnterSelectSort(s) ==
    Returned([s EXCEPT !.sort = s.side_focused, !.state = MAIN,
                       !.x_offset = 0, !.refresh = TRUE])

process_keyboard_event_select_sort(s, key_code) ==
    IF key_code \in Keys.CANCEL
    THEN Returned([s EXCEPT !.state = MAIN, !.x_offset = 0, !.refresh = TRUE])
    ELSE IF key_code \in Keys.ENTER THEN EnterSelectSort(s)
    ELSE IF key_code \in Keys.MOVE_UP
    THEN IF s.side_focused > 0
         THEN Returned([s EXCEPT !.side_focused = s.side_focused - 1, !.refresh = TRUE])
         ELSE Returned(s)
    ELSE IF key_code \in Keys.MOVE_DOWN
    THEN IF s.side_focused < Len(select_sort_rows) - 1
         THEN Returned([s EXCEPT !.side_focused = s.side_focused + 1, !.refresh = TRUE])
         ELSE Returned(s)
    ELSE Returned(s)

(***************************************************************************)
(* Interface.get_column_at_x (lines 802-807): the index of the first       *)
(* column whose bounds hold x, None when it raises ValueError.             *)
(***************************************************************************)
\* the bounds taken without their last position
get_column_at_x_Strict(s, x) ==
    LET hits == {i \in 1..Len(s.bounds) : s.bounds[i][1] <= x /\ x < s.bounds[i][2]}
    IN  IF hits = {} THEN None
        ELSE Some((CHOOSE i \in hits : \A j \in hits : i <= j) - 1)

get_column_at_x(s, x) ==
    LET hits == {i \in 1..Len(s.bounds) : s.bounds[i][1] <= x /\ x <= s.bounds[i][2]}
    IN  IF hits = {} THEN None
        ELSE Some((CHOOSE i \in hits : \A j \in hits : i <= j) - 1)

(***************************************************************************)
(* The mouse handlers (lines 613-641).                                     *)
(***************************************************************************)
process_mouse_event_main(s, e) ==
    IF LEFT_CLICK \in e.buttons
    THEN IF e.y = 0
         THEN LET new_sort == get_column_at_x(s, e.x)
              IN  IF new_sort = None THEN Raised(s, "ValueError")
                  ELSE IF new_sort[1] = s.sort
                       THEN Returned([s EXCEPT !.reverse = ~s.reverse, !.refresh = TRUE])
                       ELSE Returned([s EXCEPT !.sort = new_sort[1], !.refresh = TRUE])
         ELSE Returned([s EXCEPT
                  !.focused = Min(e.y - 1 + s.row_offset, Len(s.rows) - 1),
                  !.refresh = TRUE])
    ELSE Returned(s)

(***************************************************************************)
(* Interface.process_event and the state_mapping dispatch (lines 341-367,  *)
(* 428-445, 613-614).                                                      *)
(***************************************************************************)
process_keyboard_event(s, e, ok) ==
    CASE s.state = MAIN -> process_keyboard_event_main(s, e.key_code, ok)
      [] s.state = HELP -> process_keyboard_event_help(s, e.key_code)
      [] s.state = SETUP -> process_keyboard_event_setup(s, e.key_code)
      [] s.state = REMOVE_ASK -> process_keyboard_event_remove_ask(s, e.key_code, ok)
      [] s.state = SELECT_SORT -> process_keyboard_event_select_sort(s, e.key_code)

process_mouse_event(s, e) ==
    IF s.state = MAIN THEN process_mouse_event_main(s, e) ELSE Returned(s)

process_event(s, e, ok) ==
    IF e.type = "KeyboardEvent" THEN process_keyboard_event(s, e, ok)
    ELSE IF e.type = "MouseEvent" THEN process_mouse_event(s, e)
    ELSE Returned(s)

(***************************************************************************)
(* Interface.set_screen (lines 809-824).  dimensions is the screen's       *)
(* (height, width); a padding other than "100%" is stripped of its         *)
(* alignment characters and parsed as a decimal number.                    *)
(***************************************************************************)
RECURSIVE lstrip(_, _)
lstrip(chars, strip) ==
    IF chars # <<>> /\ chars[1] \in strip THEN lstrip(Tail(chars), strip) ELSE chars

DigitValue(c) ==
    CASE c = "0" -> 0 [] c = "1" -> 1 [] c = "2" -> 2 [] c = "3" -> 3
      [] c = "4" -> 4 [] c = "5" -> 5 [] c = "6" -> 6 [] c = "7" -> 7
      [] c = "8" -> 8 [] c = "9" -> 9

RECURSIVE int(_)
int(chars) ==
    IF Len(chars) = 1 THEN DigitValue(chars[1])
    ELSE 10 * int(SubSeq(chars, 1, Len(chars) - 1)) + DigitValue(chars[Len(chars)])

IsFill(padding) == padding = <<"1", "0", "0", "%">>

RECURSIVE column_bounds(_, _)
\* the bounds list after the loop has handled the first n columns
column_bounds(n, width) ==
    IF n = 0 THEN <<>>
    ELSE LET bounds == column_bounds(n - 1, width)
             column == columns[columns_order[n]]
         IN  IF IsFill(column.padding)
             THEN Append(bounds, <<bounds[Len(bounds)][2] + 1, width>>)
             ELSE LET padding == int(lstrip(column.padding, {"<", ">", "=", "^"}))
                  IN  IF bounds = <<>> THEN <<<<0, padding>>>>
                      ELSE Append(bounds, <<bounds[Len(bounds)][2] + 1,
                                            bounds[Len(bounds)][2] + 1 + padding>>)

\* a set_screen that also rewinds the table to its first row
set_screen_Rewinds(s, dimensions) ==
    [s EXCEPT !.height = dimensions[1], !.width = dimensions[2],
              !.bounds = column_bounds(NColumns, dimensions[2]),
              !.row_offset = 0]

set_screen(s, dimensions) ==
    [s EXCEPT !.height = dimensions[1], !.width = dimensions[2],
              !.bounds = column_bounds(NColumns, dimensions[2])]

(***************************************************************************)
(* Interface.update_data, sort_data and update_rows (lines 826-846).       *)
(* sorted() is stable in both directions: downloads with equal keys keep   *)
(* the order they had in the list sorted.                                  *)
(***************************************************************************)
\* x goes after the elements that sort before it or equal to it
\* a descending sort that is the ascending one read backwards: x goes
\* before the elements equal to it
Insert_TiesFirst(acc, x, column_name, reverse) ==
    LET k == get_sort(column_name, x)
        before == {i \in 1..Len(acc) :
                      IF reverse THEN get_sort(column_name, acc[i]) > k
                      ELSE get_sort(column_name, acc[i]) <= k}
        n == Cardinality(before)
    IN  SubSeq(acc, 1, n) \o <<x>> \o SubSeq(acc, n + 1, Len(acc))

Insert(acc, x, column_name, reverse) ==
    LET k == get_sort(column_name, x)
        before == {i \in 1..Len(acc) :
                      IF reverse THEN get_sort(column_name, acc[i]) >= k
                      ELSE get_sort(column_name, acc[i]) <= k}
        n == Cardinality(before)
    IN  SubSeq(acc, 1, n) \o <<x>> \o SubSeq(acc, n + 1, Len(acc))

RECURSIVE sorted(_, _, _)
sorted(seq, column_name, reverse) ==
    IF seq = <<>> THEN <<>>
    ELSE Insert(sorted(SubSeq(seq, 1, Len(seq) - 1), column_name, reverse),
                seq[Len(seq)], column_name, reverse)

sort_data(s) ==
    [s EXCEPT !.data = sorted(s.data, PyAt(columns_order, s.sort), s.reverse)]

\* get_data() returned `downloads`
update_data(s, downloads) == sort_data([s EXCEPT !.data = downloads])

\* list.index: the first position holding an equal download, None for ValueError
index(seq, d) ==
    LET hits == {i \in 1..Len(seq) : SameDownload(seq[i], d)}
    IN  IF hits = {} THEN None
        ELSE Some((CHOOSE i \in hits : \A j \in hits : i <= j) - 1)

\* a row rebuild that leaves the focus where it is
update_rows_KeepsFocus(s) ==
    LET rows == [i \in 1..Len(s.data) |->
                    [c \in 1..NColumns |-> get_text(columns_order[c], s.data[i])]]
    IN  Returned([s EXCEPT !.rows = rows])

update_rows(s) ==
    LET rows == [i \in 1..Len(s.data) |->
                    [c \in 1..NColumns |-> get_text(columns_order[c], s.data[i])]]
        t == [s EXCEPT !.rows = rows]
    IN  IF s.follow # None
        THEN LET at == index(s.data, s.follow[1])
             IN  IF at = None THEN Raised(t, "ValueError")
                 ELSE Returned([t EXCEPT !.focused = at[1]])
        ELSE Returned(t)

(***************************************************************************)
(* Interface.run (lines 369-423), one action per stretch of the loop.      *)
(***************************************************************************)
\* the class attributes (lines 218-238, 322)
Interface ==
    [state |-> MAIN, frame |-> 0, focused |-> 0, side_focused |-> 0,
     sort |-> 2, reverse |-> TRUE, x_scroll |-> 0, x_offset |-> 0,
     y_offset |-> 0, row_offset |-> 0, refresh |-> FALSE,
     width |-> None, height |-> None, data |-> <<>>, rows |-> <<>>,
     follow |-> None, bounds |-> <<>>, last_remove_choice |-> None]

InitRun ==
    /\ self = Interface
    /\ pc = "start"
    /\ event = None
    /\ previous_sort = None
    /\ result = None
    /\ calls = <<>>
    /\ error = "none"
    /\ since = 0

Idle == UNCHANGED <<scroller, printed, written, base, shown>>

\* a step that neither fetches the data nor completes a frame
NoFrame == UNCHANGED since

\* lines 374-376: the first screen
SetScreen(Dimensions) ==
    /\ pc = "start"
    /\ \E d \in Dimensions : self' = [set_screen(self, d) EXCEPT !.frame = 0]
    /\ pc' = "loop"
    /\ UNCHANGED <<event, previous_sort, result, daemon, calls, error>>
    /\ Idle
    /\ NoFrame

\* lines 373-378: the screen has resized; the inner loop ends and a new
\* screen is set
Resize(Dimensions) ==
    /\ pc = "loop"
    /\ \E d \in Dimensions : self' = [set_screen(self, d) EXCEPT !.frame = 0]
    /\ UNCHANGED <<pc, event, previous_sort, result, daemon, calls, error>>
    /\ Idle
    /\ NoFrame

\* lines 378-384: no resize; a frame begins
BeginFrame ==
    /\ pc = "loop"
    /\ previous_sort' = <<self.sort, self.reverse>>
    /\ self' = [self EXCEPT !.refresh = FALSE]
    /\ pc' = "events"
    /\ UNCHANGED <<event, result, daemon, calls, error>>
    /\ Idle
    /\ NoFrame

\* lines 388, 398: screen.get_event() gives a pending event or None
GetEvent(Pending) ==
    /\ pc = "events"
    /\ \/ \E e \in Pending : event' = Some(e) /\ pc' = "process"
       \/ event' = None /\ pc' = "update"
    /\ calls' = <<>>
    /\ error' = "none"
    /\ UNCHANGED <<self, previous_sort, result, daemon>>
    /\ Idle
    /\ NoFrame

\* the loop without its inner except clause: any exception of an event ends
\* run
ProcessEvent_Abort(Oks) ==
    /\ pc = "process"
    /\ \E ok \in Oks :
          LET o == process_event(self, event[1], ok)
          IN  /\ calls' = o.calls
              /\ error' = o.exc
              /\ IF o.exc = "Exit"
                 THEN result' = Some(TRUE) /\ pc' = "done" /\ self' = self
                 ELSE IF o.exc # "none"
                 THEN result' = Some(FALSE) /\ pc' = "done" /\ self' = o.self
                 ELSE result' = result /\ pc' = "events" /\ self' = o.self
    /\ UNCHANGED <<event, previous_sort, daemon>>
    /\ Idle
    /\ NoFrame

\* lines 389-397: one event is processed; Exit ends run with True, any other
\* exception is logged
ProcessEvent(Oks) ==
    /\ pc = "process"
    /\ \E ok \in Oks :
          LET o == process_event(self, event[1], ok)
          IN  /\ calls' = o.calls
              /\ error' = o.exc
              /\ IF o.exc = "Exit"
                 THEN result' = Some(TRUE) /\ pc' = "done" /\ self' = self
                 ELSE result' = result /\ pc' = "events" /\ self' = o.self
    /\ UNCHANGED <<event, previous_sort, daemon>>
    /\ Idle
    /\ NoFrame

\* lines 400-411: what the frame does to the data before it prints
\* a frame 0 that fetches and sorts the data and keeps the old rows
Frame0_KeepsRows(s, downloads) ==
    IF s.frame = 0
    THEN Returned([update_data(s, downloads) EXCEPT !.refresh = TRUE])
    ELSE Returned(s)

Frame0(s, downloads) ==
    IF s.frame = 0
    THEN LET u == update_rows(update_data(s, downloads))
         IN  [u EXCEPT !.self.refresh = (u.exc = "none") \/ s.refresh]
    ELSE Returned(s)

\* a frame that never sorts again
Resort_Skipped(s, previous) == Returned(s)

Resort(s, previous) ==
    IF s.refresh /\ <<s.sort, s.reverse>> # previous /\ s.frame # 0
    THEN update_rows(sort_data(s))
    ELSE Returned(s)

\* lines 400-411, 421-423: the collaborator lists one of the `Fetchable`
\* lists of downloads at frame 0; an exception of update_rows ends run with
\* False
Update(Fetchable) ==
    /\ pc = "update"
    /\ \E downloads \in Fetchable :
          LET u == Frame0(self, downloads)
              r == IF u.exc = "none" THEN Resort(u.self, previous_sort) ELSE u
          IN  /\ daemon' = IF self.frame = 0 THEN downloads ELSE daemon
              /\ self' = r.self
              /\ error' = r.exc
              /\ IF r.exc = "none"
                 THEN pc' = "paint" /\ result' = result
                 ELSE pc' = "done" /\ result' = Some(FALSE)
    /\ UNCHANGED <<event, previous_sort, calls>>
    /\ since' = IF self.frame = 0 THEN 0 ELSE since
    /\ Idle

\* lines 402, 421-423, 828: the collaborator fails to list the downloads
FetchFails ==
    /\ pc = "update"
    /\ self.frame = 0
    /\ error' = "ClientException"
    /\ pc' = "done"
    /\ result' = Some(FALSE)
    /\ UNCHANGED <<self, daemon, event, previous_sort, calls>>
    /\ Idle
    /\ NoFrame

\* a frame counter that never wraps
Paint_Unbounded ==
    /\ pc = "paint"
    /\ self' = [self EXCEPT !.frame = self.frame + 1]
    /\ pc' = "loop"
    /\ UNCHANGED <<event, previous_sort, result, daemon, calls, error>>
    /\ since' = since + 1
    /\ Idle

\* lines 413-420: the print functions and screen.refresh() when refresh is
\* set, then the sleep and the frame counter
Paint ==
    /\ pc = "paint"
    /\ self' = [self EXCEPT !.frame = (self.frame + 1) % frames]
    /\ pc' = "loop"
    /\ UNCHANGED <<event, previous_sort, result, daemon, calls, error>>
    /\ since' = since + 1
    /\ Idle

(***************************************************************************)
(* Environments.  A specification fixes what the terminal, the user and    *)
(* the collaborator may do; the program's steps are the same in all.       *)
(***************************************************************************)
NoScroller ==
    /\ scroller = [scroll |-> 0]
    /\ printed = 0
    /\ written = 0
    /\ base = 0
    /\ shown = <<>>

Key(names) == {KeyboardEvent(k) : k \in names}

\* n downloads, all active, in the order of their identifiers
Queue(n) == [i \in 1..n |-> Download(i, "active", i)]

(***************************************************************************)
(* SpecUpDown: a terminal of fixed size, a collaborator that always lists  *)
(* the same non-empty queue, a user who presses only Up and Down.          *)
(***************************************************************************)
InitUpDown ==
    /\ InitRun
    /\ NoScroller
    /\ daemon \in {Queue(n) : n \in 1..MaxRows}

NextUpDown ==
    \/ SetScreen((1..MaxHeight) \X {MaxWidth})
    \/ BeginFrame
    \/ GetEvent(Key({"up", "down"}))
    \/ ProcessEvent({TRUE})
    \/ Update({daemon})
    \/ Paint

SpecUpDown == InitUpDown /\ [][NextUpDown]_vars

InWindow(s) ==
    s.row_offset <= s.focused /\ s.focused < s.row_offset + (s.height - 1)

InRows(s) == 0 <= s.focused /\ s.focused < Len(s.rows)

\* C1 as stated: with a fixed non-empty row list and a fixed terminal
\* height, after any sequence of Up and Down keys the focus index is a row
\* index and lies in the window of height - 1 rows that starts at row_offset.
C1_AsStated == self.rows # <<>> => InRows(self) /\ InWindow(self)

\* C1: the same, for a terminal of at least two lines (a header line and a
\* row line); with a single line the window of height - 1 rows is empty.
C1_UpDownKeepsFocusVisible ==
    self.rows # <<>> /\ self.height >= 2 => InRows(self) /\ InWindow(self)

\* Down has scrolled the window to the last row of a list longer than it
C1_Witness ==
    /\ self.rows # <<>>
    /\ self.height >= 2
    /\ self.focused = Len(self.rows) - 1
    /\ self.row_offset > 0
    /\ Len(self.rows) > self.height - 1

(***************************************************************************)
(* SpecNav: the user moves the focus with Up, Down and clicks on rows,     *)
(* follows rows, opens and cancels the remove panel; the terminal is       *)
(* resized; the collaborator lists any queue of at most MaxTasks downloads *)
(* at each refresh.                                                        *)
(***************************************************************************)
RECURSIVE Orders(_)
\* the lists without repetition of the elements of S
Orders(S) ==
    IF S = {} THEN {<<>>}
    ELSE UNION {{<<x>> \o q : q \in Orders(S \ {x})} : x \in S}

\* the queues of distinct downloads the collaborator may list
Queues(Ids) ==
    UNION {Orders({Download(i, "waiting", i) : i \in I}) : I \in SUBSET Ids}

Clicks(s) == {MouseEvent(0, y, {LEFT_CLICK}) : y \in 1..(s.height - 1)}

InitNav ==
    /\ InitRun
    /\ NoScroller
    /\ daemon = <<>>

NextNav ==
    \/ SetScreen((2..MaxHeight) \X {MaxWidth})
    \/ Resize((2..MaxHeight) \X {MaxWidth})
    \/ BeginFrame
    \/ GetEvent(Key({"up", "down", "F", "F9", "esc"}) \cup Clicks(self))
    \/ ProcessEvent({TRUE})
    \/ Update(Queues(1..MaxTasks))
    \/ Paint

SpecNav == InitNav /\ [][NextNav]_vars

\* C2 as stated: whenever the row list is non-empty the focus index is a
\* row index, in every state of the render loop.
C2_FocusInRows == self.rows # <<>> => InRows(self)

(***************************************************************************)
(* SpecResize: a collaborator that always lists the same queue, a user who *)
(* presses Up and Down, and a terminal that is resized.                    *)
(***************************************************************************)
InitResize ==
    /\ InitRun
    /\ NoScroller
    /\ daemon \in {Queue(n) : n \in 1..MaxRows}

NextResize ==
    \/ SetScreen((2..MaxHeight) \X {MaxWidth})
    \/ Resize((2..MaxHeight) \X {MaxWidth})
    \/ BeginFrame
    \/ GetEvent(Key({"up", "down"}))
    \/ ProcessEvent({TRUE})
    \/ Update({daemon})
    \/ Paint

SpecResize == InitResize /\ [][NextResize]_vars

\* the print functions run in this state
Painting == pc = "paint" /\ self.refresh

\* C3 as stated: in every state in which a paint occurs the focused row
\* lies in the window of height - 1 rows that starts at row_offset.
C3_PaintedFocusInWindow == Painting => InWindow(self)

(***************************************************************************)
(* SpecSel: the user changes the sort with NextSort, PreviousSort,         *)
(* ReverseSort, the SelectSort panel and clicks on the header, over a      *)
(* queue of one download.                                                  *)
(***************************************************************************)
\* primary-button clicks on the header at the given positions of the screen
HeaderClicks(s, xs) ==
    {MouseEvent(x, 0, {LEFT_CLICK}) : x \in xs \cap (0..(s.width - 1))}

\* the positions where a column's bounds start
Starts(s) == {s.bounds[i][1] : i \in 1..Len(s.bounds)}

InitSel ==
    /\ InitRun
    /\ NoScroller
    /\ daemon = Queue(1)

NextSel ==
    \/ SetScreen({MaxHeight} \X {MaxWidth})
    \/ BeginFrame
    \/ GetEvent(Key({"n", "p", "I", "F6", "enter", "esc", "up", "down"})
                \cup HeaderClicks(self, Starts(self)))
    \/ ProcessEvent({TRUE})
    \/ Update({daemon})
    \/ Paint

SpecSel == InitSel /\ [][NextSel]_vars

(***************************************************************************)
(* SpecHeader: the user clicks anywhere on the header, reverses the sort   *)
(* and moves the focus, on a terminal of one of two widths, over a queue   *)
(* of two downloads.                                                       *)
(***************************************************************************)
InitHeader ==
    /\ InitRun
    /\ NoScroller
    /\ daemon = Queue(2)

NextHeader ==
    \/ SetScreen({MaxHeight} \X {NarrowWidth, MaxWidth})
    \/ BeginFrame
    \/ GetEvent(Key({"I", "up", "down"}) \cup HeaderClicks(self, 0..(self.width - 1)))
    \/ ProcessEvent({TRUE})
    \/ Update({daemon})
    \/ Paint

SpecHeader == InitHeader /\ [][NextHeader]_vars

\* the event being processed is a press of one of `names` in mode `state`
Pressing(state, names) ==
    /\ pc = "process"
    /\ self.state = state
    /\ event[1].type = "KeyboardEvent"
    /\ event[1].key_code \in names

\* C4: the sort column index is a column index in every state; NextSort and
\* PreviousSort move it by exactly one and leave it alone at the last and
\* the first column.
C4_SortInRange ==
    /\ [](self.sort \in 0..(NColumns - 1))
    /\ [][/\ Pressing(MAIN, Keys.NEXT_SORT) =>
                self'.sort = IF self.sort = NColumns - 1
                             THEN self.sort ELSE self.sort + 1
          /\ Pressing(MAIN, Keys.PREVIOUS_SORT) =>
                self'.sort = IF self.sort = 0 THEN self.sort ELSE self.sort - 1]_vars

\* NextSort was just pressed on the last column and did nothing
C4_Witness ==
    /\ pc = "events"
    /\ event = Some(KeyboardEvent("n"))
    /\ self.state = MAIN
    /\ self.sort = NColumns - 1
    /\ ~self.refresh

\* C6: Enter in the SelectSort panel leaves the interface in Main mode with
\* the sort column equal to the panel's focus at that time and the
\* horizontal offset 0; the panel opens on the current sort column.
C6_SelectSortRoundTrip ==
    [][/\ Pressing(SELECT_SORT, Keys.ENTER) =>
             /\ self'.state = MAIN
             /\ self'.sort = self.side_focused
             /\ self'.x_offset = 0
       /\ Pressing(MAIN, Keys.SELECT_SORT) =>
             /\ self'.state = SELECT_SORT
             /\ self'.side_focused = self.sort]_vars

\* Enter was just pressed in the panel after its focus was moved to the
\* first column
C6_Witness ==
    /\ pc = "events"
    /\ event = Some(KeyboardEvent("enter"))
    /\ self.state = MAIN
    /\ self.sort = 0
    /\ self.side_focused = 0
    /\ previous_sort[1] = 2
    /\ self.x_offset = 0

\* the event being processed is a primary-button click on the header at a
\* position in the bounds of column c
ClickingHeader(c) ==
    /\ pc = "process"
    /\ self.state = MAIN
    /\ event[1].type = "MouseEvent"
    /\ LEFT_CLICK \in event[1].buttons
    /\ event[1].y = 0
    /\ self.bounds[c + 1][1] <= event[1].x
    /\ event[1].x <= self.bounds[c + 1][2]

\* C10: a primary-button click on the header inside column c's bounds flips
\* the direction and keeps the sort column when c is the sort column, and
\* otherwise makes c the sort column and keeps the direction; the focus
\* index is unchanged.
C10_HeaderClick ==
    [][\A c \in 0..(NColumns - 1) :
          ClickingHeader(c) =>
             /\ self'.focused = self.focused
             /\ IF c = self.sort
                THEN self'.reverse = ~self.reverse /\ self'.sort = self.sort
                ELSE self'.sort = c /\ self'.reverse = self.reverse]_vars

\* the header was just clicked at the start of the size column while the
\* size column was the sort column, and the direction flipped
C10_Witness ==
    /\ pc = "events"
    /\ event = Some(MouseEvent(36, 0, {LEFT_CLICK}))
    /\ self.sort = 3
    /\ previous_sort = <<3, TRUE>>
    /\ self.reverse = FALSE
    /\ self.focused = 1

(***************************************************************************)
(* HorizontalScroll (lines 111-172).  A text is a sequence of characters;  *)
(* print_at gives the scroller after the call, the text it handed to the   *)
(* screen (None when it printed nothing) and the value it returned.        *)
(***************************************************************************)
set_scroll(sc, scroll) == [sc EXCEPT !.scroll = scroll]

\* the text sliced one character too far
print_at_OffByOne(sc, text) ==
    IF sc.scroll = 0
    THEN [scroller |-> sc, written |-> Len(text), text |-> Some(text)]
    ELSE IF Len(text) > sc.scroll
         THEN LET new_text == SubSeq(text, sc.scroll + 2, Len(text))
              IN  [scroller |-> [sc EXCEPT !.scroll = 0],
                   written |-> Len(new_text), text |-> Some(new_text)]
         ELSE IF Len(text) = sc.scroll
              THEN [scroller |-> [sc EXCEPT !.scroll = 0], written |-> 0, text |-> None]
              ELSE [scroller |-> [sc EXCEPT !.scroll = sc.scroll - Len(text)],
                    written |-> 0, text |-> None]

print_at(sc, text) ==
    IF sc.scroll = 0
    THEN [scroller |-> sc, written |-> Len(text), text |-> Some(text)]
    ELSE LET text_length == Len(text)
         IN  IF text_length > sc.scroll
             THEN LET new_text == SubSeq(text, sc.scroll + 1, Len(text))
                  IN  [scroller |-> [sc EXCEPT !.scroll = 0],
                       written |-> Len(new_text), text |-> Some(new_text)]
             ELSE IF text_length = sc.scroll
                  THEN [scroller |-> [sc EXCEPT !.scroll = 0],
                        written |-> 0, text |-> None]
                  ELSE [scroller |-> [sc EXCEPT !.scroll = sc.scroll - text_length],
                        written |-> 0, text |-> None]

(***************************************************************************)
(* print_headers (lines 752-772).  A header string is modelled by its      *)
(* cells, each holding the index of the column it belongs to; the padding  *)
(* and the fill of the last column belong to their column.                 *)
(***************************************************************************)
\* f"{column.header:{column.padding}} ", or f"{column.header}" for "100%"
header_string(c) ==
    LET column == columns[columns_order[c + 1]]
    IN  IF IsFill(column.padding)
        THEN [i \in 1..Len(column.header) |-> c]
        ELSE LET padding == int(lstrip(column.padding, {"<", ">", "=", "^"}))
             IN  [i \in 1..(Max(Len(column.header), padding) + 1) |-> c]

\* the cells a print_at call starting at screen column x has painted
Cells(p, x) ==
    IF p.text = None THEN {}
    ELSE {<<x + i - 1, p.text[1][i]>> : i \in 1..Len(p.text[1])}

RECURSIVE print_headers(_, _)
\* the scroller, x and the painted cells after the loop has handled the
\* first n columns
print_headers(s, n) ==
    IF n = 0
    THEN [scroller |-> set_scroll([scroll |-> 0], s.x_scroll),
          x |-> s.x_offset, cells |-> {}]
    ELSE LET before == print_headers(s, n - 1)
             x == before.x
             c == n - 1
         IN  IF IsFill(columns[columns_order[n]].padding)
             THEN LET fill_up == [i \in 1..Max(0, s.width - x - Len(header_string(c))) |-> c]
                      head == print_at(before.scroller, header_string(c))
                      fill == print_at(head.scroller, fill_up)
                  IN  [scroller |-> fill.scroller,
                       x |-> x + head.written,
                       cells |-> before.cells \cup Cells(head, x)
                                    \cup Cells(fill, x + head.written)]
             ELSE LET head == print_at(before.scroller, header_string(c))
                  IN  [scroller |-> head.scroller,
                       x |-> x + head.written,
                       cells |-> before.cells \cup Cells(head, x)]

\* the index of the column whose header is on screen column x, None where
\* print_headers paints nothing
painted_column(s, x) ==
    LET cells == {cell \in print_headers(s, NColumns).cells : cell[1] = x}
    IN  IF cells = {} THEN None ELSE Some((CHOOSE cell \in cells : TRUE)[2])

(***************************************************************************)
(* SpecScroll: a paint pass on a scroller: set_scroll with a base scroll,  *)
(* then print_at calls with texts of any length up to MaxTextLen.          *)
(***************************************************************************)
Text(n) == [i \in 1..n |-> "x"]

InitScroll ==
    /\ InitRun
    /\ daemon = <<>>
    /\ scroller = [scroll |-> 0]
    /\ printed = 0
    /\ written = 0
    /\ base = 0
    /\ shown = <<>>

SetScroll ==
    /\ \E scroll \in 0..MaxScroll :
          /\ scroller' = set_scroll(scroller, scroll)
          /\ base' = scroll
    /\ printed' = 0
    /\ written' = 0
    /\ UNCHANGED <<self, pc, event, previous_sort, result, daemon, calls, error, shown>>
    /\ NoFrame

PrintAt ==
    /\ \E n \in 0..MaxTextLen :
          /\ printed + n <= MaxPrinted
          /\ LET p == print_at(scroller, Text(n))
             IN  /\ scroller' = p.scroller
                 /\ written' = written + p.written
          /\ printed' = printed + n
    /\ UNCHANGED <<self, pc, event, previous_sort, result, daemon, calls, error,
                   base, shown>>
    /\ NoFrame

NextScroll == SetScroll \/ PrintAt

SpecScroll == InitScroll /\ [][NextScroll]_vars

\* C5: after set_scroll(S), S >= 0, and print_at calls whose texts' lengths
\* sum to L, the values returned sum to max(0, L - S), and the scroll
\* counter is never negative.
C5_ScrollWriterTotal ==
    /\ written = Max(0, printed - base)
    /\ scroller.scroll >= 0

\* a print_at was cut by what was left of the scroll, after one that was
\* skipped whole
C5_Witness ==
    /\ base > 0
    /\ printed > base
    /\ written > 0
    /\ written < MaxTextLen
    /\ printed > MaxTextLen

(***************************************************************************)
(* SpecReverse: the collaborator has listed some queue, in some order, of at  *)
(* most MaxSorted downloads with sizes up to MaxKey; the table shows it    *)
(* sorted on the gid, the progress or the size column (keys all different, *)
(* all equal, or any) in some direction.  From there each step is a     *)
(* frame, other than frame 0, in which the user presses ReverseSort once:  *)
(* the handler, then lines 409-411 of run.  shown lists the orders         *)
(* displayed.                                                              *)
(***************************************************************************)
Sized(Ids) ==
    UNION {Orders({Download(i, "active", size[i]) : i \in I}) :
              size \in [Ids -> 1..MaxKey], I \in SUBSET Ids}

\* the interface after a first frame that listed `downloads`, with the sort
\* set to `sort` and `reverse`
Displaying(downloads, sort, reverse) ==
    LET s == [set_screen(Interface, <<MaxHeight, MaxWidth>>) EXCEPT
                 !.sort = sort, !.reverse = reverse, !.refresh = TRUE]
    IN  [update_rows(update_data(s, downloads)).self EXCEPT !.frame = 1]

InitReverse ==
    /\ \E downloads \in Sized(1..MaxSorted), sort \in {0, 2, 3},
          reverse \in BOOLEAN :
          /\ daemon = downloads
          /\ self = Displaying(downloads, sort, reverse)
    /\ shown = <<self.data>>
    /\ pc = "loop"
    /\ event = None
    /\ previous_sort = None
    /\ result = None
    /\ calls = <<>>
    /\ error = "none"
    /\ scroller = [scroll |-> 0]
    /\ printed = 0
    /\ written = 0
    /\ base = 0
    /\ since = 0

ReverseSortFrame ==
    /\ Len(shown) <= MaxToggles
    /\ LET pressed == process_keyboard_event_main(self, "I", TRUE).self
           sorted_again == Resort(pressed, <<self.sort, self.reverse>>).self
       IN  /\ self' = sorted_again
           /\ shown' = Append(shown, sorted_again.data)
    /\ UNCHANGED <<pc, event, previous_sort, result, daemon, calls, error,
                   scroller, printed, written, base>>
    /\ NoFrame

NextReverse == ReverseSortFrame

SpecReverse == InitReverse /\ [][NextReverse]_vars

Reverse(seq) == [i \in 1..Len(seq) |-> seq[Len(seq) + 1 - i]]

\* the downloads of an order have pairwise different keys on the sort column
DistinctKeys(order) ==
    \A i, j \in 1..Len(order) :
        i # j => get_sort(PyAt(columns_order, self.sort), order[i])
                 # get_sort(PyAt(columns_order, self.sort), order[j])

\* C7: two ReverseSort toggles, each followed by a re-sort, display the
\* order displayed before the first one, equal sort keys or not; when the
\* keys are pairwise different one toggle displays the mirror order.
C7_ReverseTwiceRestores ==
    /\ \A i \in 1..Len(shown) : i + 2 <= Len(shown) => shown[i + 2] = shown[i]
    /\ \A i \in 1..Len(shown) :
          i + 1 <= Len(shown) /\ DistinctKeys(shown[i])
             => shown[i + 1] = Reverse(shown[i])

\* three downloads, two of them with equal keys: the toggle changed the
\* order, not to its mirror, and the second toggle restored it
C7_Witness ==
    /\ Len(shown) >= 3
    /\ Len(shown[1]) = 3
    /\ shown[2] # shown[1]
    /\ shown[2] # Reverse(shown[1])
    /\ shown[3] = shown[1]

(***************************************************************************)
(* SpecCmd: the collaborator always lists the same queue of at most        *)
(* MaxListed downloads, each in any status; the user moves the focus and   *)
(* presses ToggleResumePause; the collaborator's commands may fail.        *)
(***************************************************************************)
Listed(n) ==
    {[i \in 1..n |-> Download(i, status[i], i)] : status \in [1..n -> Statuses]}

InitCmd ==
    /\ InitRun
    /\ NoScroller
    /\ daemon \in UNION {Listed(n) : n \in 0..MaxListed}

NextCmd ==
    \/ SetScreen({MaxHeight} \X {MaxWidth})
    \/ BeginFrame
    \/ GetEvent(Key({"space", "up", "down"}))
    \/ ProcessEvent(BOOLEAN)
    \/ Update({daemon})
    \/ Paint

SpecCmd == InitCmd /\ [][NextCmd]_vars

\* C8: ToggleResumePause in Main mode issues one command, chosen by the
\* status of the task at the focus index: pause when it is active or
\* waiting, resume when it is paused, none otherwise (and none when no
\* task is there); no field of the interface changes.
C8_ToggleResumePause ==
    [][Pressing(MAIN, Keys.TOGGLE_RESUME_PAUSE) =>
          /\ self' = self
          /\ calls' =
                IF 0 <= self.focused /\ self.focused < Len(self.data)
                THEN LET d == self.data[self.focused + 1]
                     IN  IF d.status \in {"active", "waiting"}
                         THEN <<[gid |-> d.gid, method |-> "pause"]>>
                         ELSE IF d.status = "paused"
                              THEN <<[gid |-> d.gid, method |-> "resume"]>>
                              ELSE <<>>
                ELSE <<>>]_vars

\* the toggle was just pressed on the second row, a paused download, and
\* issued resume
C8_Witness ==
    /\ pc = "events"
    /\ event = Some(KeyboardEvent("space"))
    /\ self.state = MAIN
    /\ self.focused = 1
    /\ Len(self.data) = 2
    /\ self.data[2].status = "paused"
    /\ calls = <<[gid |-> self.data[2].gid, method |-> "resume"]>>

\* C9 as stated: RemoveAsk in Main mode changes the mode to RemoveConfirm
\* only if a task exists at the focus index, and then the followed relation
\* is that task; with an empty task list no field of the interface changes.
C9_RemoveAskGuard ==
    [][Pressing(MAIN, Keys.REMOVE_ASK) =>
          /\ self'.state = REMOVE_ASK =>
                /\ 0 <= self.focused
                /\ self.focused < Len(self.data)
                /\ self'.follow = Some(self.data[self.focused + 1])
          /\ self.data = <<>> => self' = self]_vars

(***************************************************************************)
(* SpecFault: the collaborator always lists the same queue of at most      *)
(* MaxListed downloads; the user presses command keys, opens and confirms  *)
(* the remove panel, quits, and clicks on the header line right of the     *)
(* last column; any collaborator command may fail.                         *)
(***************************************************************************)
InitFault ==
    /\ InitRun
    /\ NoScroller
    /\ daemon \in UNION {Listed(n) : n \in 0..MaxListed}

NextFault ==
    \/ SetScreen({MaxHeight} \X {MaxWidth})
    \/ BeginFrame
    \/ GetEvent(Key({"space", "u", "c", "F9", "enter", "q"})
                   \cup {MouseEvent(MaxWidth + 1, 0, {LEFT_CLICK})})
    \/ ProcessEvent(BOOLEAN)
    \/ Update({daemon})
    \/ Paint

SpecFault == InitFault /\ [][NextFault]_vars

\* C11: an event whose processing raises anything but Exit leaves run in
\* its event loop, about to take the next queued event, with no result and
\* the interface's fields as they were; and run never ends with the
\* failure result because of an event.
C11_EventErrorsAreCaught ==
    /\ [](result # Some(FALSE))
    /\ [][pc = "process" /\ error' \notin {"none", "Exit"} =>
             /\ pc' = "events"
             /\ result' = None
             /\ self' = self]_vars

\* the remove command just failed: the panel is still open, the task still
\* followed, and run is about to take the next event
C11_Witness ==
    /\ pc = "events"
    /\ error = "ClientException"
    /\ result = None
    /\ self.state = REMOVE_ASK
    /\ self.follow # None
    /\ calls # <<>>
    /\ calls[1].method = "remove"

(***************************************************************************)
(* SpecFetch: the collaborator lists a queue of at most MaxListed          *)
(* downloads, later perhaps none, and may fail to list them; the user      *)
(* follows a row, opens the help and the sort panel, and quits.            *)
(***************************************************************************)
InitFetch ==
    /\ InitRun
    /\ NoScroller
    /\ daemon \in UNION {Listed(n) : n \in 0..MaxListed}

NextFetch ==
    \/ SetScreen({MaxHeight} \X {MaxWidth})
    \/ BeginFrame
    \/ GetEvent(Key({"q", "h", "F", "F6", "down"}))
    \/ ProcessEvent({TRUE})
    \/ Update({daemon, <<>>})
    \/ FetchFails
    \/ Paint

SpecFetch == InitFetch /\ [][NextFetch]_vars

\* C12 as stated: when the collaborator fails to list the downloads at the
\* periodic refresh, the interface's fields are unchanged and run goes on
\* (it has no result and has not ended).
C12_FetchFailureRecoverable ==
    [][pc = "update" /\ error' = "ClientException" =>
          /\ self' = self
          /\ result' = None
          /\ pc' # "done"]_vars

\* C13: run returns True exactly on a Quit key handled in Main mode, and
\* that event is the last thing run does (no step follows, so no later
\* event is dispatched); an exception raised outside the handling of an
\* event (by the refresh) makes run return False.
C13_QuitReturnsTrue ==
    /\ [](result = Some(TRUE) =>
             /\ pc = "done"
             /\ self.state = MAIN
             /\ event # None
             /\ event[1].type = "KeyboardEvent"
             /\ event[1].key_code \in Keys.QUIT)
    /\ [](result = Some(FALSE) => pc = "done" /\ error \notin {"none", "Exit"})
    /\ [][/\ Pressing(MAIN, Keys.QUIT) => result' = Some(TRUE) /\ pc' = "done"
          /\ pc = "update" /\ error' # "none" => result' = Some(FALSE) /\ pc' = "done"
          /\ pc # "done"]_vars

\* Quit was pressed in Main mode after the help was opened and closed with
\* the same key: run has ended with True
C13_Witness ==
    /\ pc = "done"
    /\ result = Some(TRUE)
    /\ error = "Exit"
    /\ event = Some(KeyboardEvent("q"))
    /\ self.state = MAIN
    /\ self.refresh

(***************************************************************************)
(* SpecPanel: the collaborator lists one download, later perhaps none;     *)
(* the user opens the sort panel and the remove panel, moves in them,      *)
(* confirms and cancels; the remove command may fail.                      *)
(***************************************************************************)
InitPanel ==
    /\ InitRun
    /\ NoScroller
    /\ daemon = Queue(1)

NextPanel ==
    \/ SetScreen({MaxHeight} \X {MaxWidth})
    \/ BeginFrame
    \/ GetEvent(Key({"F6", "F9", "up", "down", "enter", "esc"}))
    \/ ProcessEvent(BOOLEAN)
    \/ Update({daemon, <<>>})
    \/ Paint

SpecPanel == InitPanel /\ [][NextPanel]_vars

\* C14 as stated: in SelectSort mode the side-panel focus is the index of a
\* sort column, and in RemoveConfirm mode it is the index of a remove
\* choice.
C14_SideFocusInRange ==
    /\ self.state = SELECT_SORT =>
          0 <= self.side_focused /\ self.side_focused < Len(select_sort_rows)
    /\ self.state = REMOVE_ASK =>
          0 <= self.side_focused /\ self.side_focused < Len(remove_ask_rows)

InitScreen ==
    /\ InitRun
    /\ NoScroller
    /\ daemon = Queue(2)

NextScreen ==
    \/ SetScreen((2..MaxHeight) \X {NarrowWidth, MaxWidth})
    \/ Resize((2..MaxHeight) \X {NarrowWidth, MaxWidth})
    \/ BeginFrame
    \/ GetEvent(Key({"down", "I", "F6", "esc"}))
    \/ ProcessEvent({TRUE})
    \/ Update({daemon})
    \/ Paint

SpecScreen == InitScreen /\ [][NextScreen]_vars

\* run is between two frames and stays there: the screen has resized
Resizing == pc = "loop" /\ pc' = "loop"

\* C16 as stated: a resize changes only width, height and bounds; the
\* frame counter and every other field are unchanged.
C16_AsStated ==
    [][Resizing =>
          self' = [self EXCEPT !.width = self'.width,
                               !.height = self'.height,
                               !.bounds = self'.bounds]]_vars

\* C16: a resize changes only width, height, bounds and the frame counter,
\* which it resets to 0; mode, focus, side-panel focus, sort column and
\* direction, scroll and offsets, follow, last remove choice, data and
\* rows are unchanged.
C16_ResizeKeepsView ==
    [][Resizing =>
          /\ self'.frame = 0
          /\ self' = [self EXCEPT !.width = self'.width,
                                  !.height = self'.height,
                                  !.bounds = self'.bounds,
                                  !.frame = 0]]_vars

\* the terminal has grown from 2 to 3 lines with the sort panel open: the
\* row offset reached on 2 lines is still there
C16_Witness ==
    /\ pc = "loop"
    /\ self.frame = 0
    /\ self.height = 3
    /\ Len(self.rows) = 2
    /\ self.focused = 1
    /\ self.row_offset = 1
    /\ self.state = SELECT_SORT
    /\ ~self.reverse

\* C17 as stated: after set_screen the bounds list has one (start, end)
\* pair per column, each with start <= end, and each start is the previous
\* end + 1.
C17_BoundsContiguous ==
    pc # "start" =>
       /\ Len(self.bounds) = NColumns
       /\ \A i \in 1..Len(self.bounds) : self.bounds[i][1] <= self.bounds[i][2]
       /\ \A i \in 2..Len(self.bounds) :
             self.bounds[i][1] = self.bounds[i - 1][2] + 1

(***************************************************************************)
(* SpecOrder: the collaborator lists two downloads, the one with the       *)
(* smaller identifier being the larger and the last in status order, in    *)
(* this order or in the opposite one; the user changes the sort column and *)
(* direction with the keys, the sort panel and clicks on the headers of    *)
(* the gid and size columns.                                               *)
(***************************************************************************)
Mixed == <<Download(1, "waiting", 2), Download(2, "active", 1)>>

InitOrder ==
    /\ InitRun
    /\ NoScroller
    /\ daemon = Mixed

NextOrder ==
    \/ SetScreen({MaxHeight} \X {MaxWidth})
    \/ BeginFrame
    \/ GetEvent(Key({"I", "n", "F6", "down", "enter"})
                   \cup HeaderClicks(self, {self.bounds[1][1], self.bounds[4][1]}))
    \/ ProcessEvent({TRUE})
    \/ Update({Mixed, Reverse(Mixed)})
    \/ Paint

SpecOrder == InitOrder /\ [][NextOrder]_vars

\* C18: whenever the paint routines run, the cached task list is ordered
\* by the sort key of the current sort column in the current direction,
\* and the rows are the texts of that list, row by row.
C18_PaintedSorted ==
    Painting =>
       /\ \A i \in 1..(Len(self.data) - 1) :
             LET a == get_sort(columns_order[self.sort + 1], self.data[i])
                 b == get_sort(columns_order[self.sort + 1], self.data[i + 1])
             IN  IF self.reverse THEN a >= b ELSE a <= b
       /\ Len(self.rows) = Len(self.data)
       /\ \A i \in 1..Len(self.data) : \A c \in 1..NColumns :
             self.rows[i][c] = get_text(columns_order[c], self.data[i])

\* a frame that is not a refresh frame paints after its events moved the
\* sort to the size column, ascending: the two tasks are in that order
C18_Witness ==
    /\ Painting
    /\ self.frame # 0
    /\ <<self.sort, self.reverse>> # previous_sort
    /\ self.sort = 3
    /\ ~self.reverse
    /\ Len(self.data) = 2
    /\ self.data[1].total_length = 1
    /\ self.data[2].total_length = 2

(***************************************************************************)
(* SpecPrio: the collaborator lists MaxListed downloads, each in any       *)
(* status, at a refresh in this order, in the opposite order or without    *)
(* the first of them; the user moves the focus, changes the priority of    *)
(* the focused task and reverses the sort; the reorder command may fail.   *)
(***************************************************************************)
InitPrio ==
    /\ InitRun
    /\ NoScroller
    /\ daemon \in Listed(MaxListed)

NextPrio ==
    \/ SetScreen({MaxHeight} \X {MaxWidth})
    \/ BeginFrame
    \/ GetEvent(Key({"u", "d", "up", "down", "I"}))
    \/ ProcessEvent(BOOLEAN)
    \/ Update({daemon, Reverse(daemon), SubSeq(daemon, 2, Len(daemon))})
    \/ Paint

SpecPrio == InitPrio /\ [][NextPrio]_vars

C20_UpDownClearsFollow ==
    [][Pressing(MAIN, Keys.MOVE_UP \cup Keys.MOVE_DOWN) => self'.follow = None]_vars

\* C21 as stated: when update_rows does not find the followed task in the
\* refreshed list, run goes on (it has no result and has not ended).
C21_VanishedFollowRecoverable ==
    [][pc = "update" /\ self.follow # None /\ error' = "ValueError" =>
          /\ result' = None
          /\ pc' # "done"]_vars

(***************************************************************************)
(* SpecFrames: the collaborator lists one or two downloads at a refresh;   *)
(* the terminal is resized at any frame; the user reverses the sort and    *)
(* opens and confirms the remove panel, which resets the frame counter.    *)
(***************************************************************************)
InitFrames ==
    /\ InitRun
    /\ NoScroller
    /\ daemon = Queue(1)

NextFrames ==
    \/ SetScreen((2..MaxHeight) \X {MaxWidth})
    \/ Resize((2..MaxHeight) \X {MaxWidth})
    \/ BeginFrame
    \/ GetEvent(Key({"I", "F9", "enter"}))
    \/ ProcessEvent({TRUE})
    \/ Update({Queue(1), Queue(2)})
    \/ Paint

SpecFrames == InitFrames /\ [][NextFrames]_vars

\* C22: the frame counter is in [0, frames); the end of a frame, and nothing
\* else, increments it by one modulo frames (other steps leave it or reset
\* it to 0); the data is fetched in the frames whose counter is 0 when the
\* events are done, and in no other, and such a frame goes on to paint; at
\* most `frames` frames are completed between two fetches.
C22_FrameCounter ==
    /\ [](self.frame \in 0..(frames - 1))
    /\ [](since <= frames)
    /\ [][/\ pc = "paint" =>
                self'.frame = (self.frame + 1) % frames /\ pc' = "loop"
          /\ pc # "paint" => self'.frame \in {self.frame, 0}
          /\ (pc = "update" /\ self.frame = 0) =>
                /\ since' = 0
                /\ self'.data =
                      sorted(daemon', columns_order[self.sort + 1], self.reverse)
                /\ self'.refresh
                /\ pc' = "paint"
          /\ (pc = "update" /\ self.frame # 0) =>
                /\ since' = since
                /\ daemon' = daemon
                /\ Len(self'.data) = Len(self.data)
                /\ \A i \in 1..Len(self.data) :
                      \E j \in 1..Len(self'.data) : self'.data[j] = self.data[i]]_vars

\* a full cycle of frames was completed since the last fetch and the
\* counter is back to 0: this frame fetches
C22_Witness ==
    /\ pc = "update"
    /\ self.frame = 0
    /\ since = frames
    /\ self.data # <<>>

(***************************************************************************)
(* SpecLeftRight: the user scrolls the table left and right (right only    *)
(* while the scroll is below MaxXScroll), opens the help and the sort      *)
(* panel, moves the focus and resizes the terminal.                        *)
(***************************************************************************)
InitLeftRight ==
    /\ InitRun
    /\ NoScroller
    /\ daemon = Queue(2)

NextLeftRight ==
    \/ SetScreen((2..MaxHeight) \X {MaxWidth})
    \/ Resize((2..MaxHeight) \X {MaxWidth})
    \/ BeginFrame
    \/ GetEvent(Key({"left", "h", "F6", "esc", "down"}
                    \cup IF self.x_scroll < MaxXScroll THEN {"right"} ELSE {}))
    \/ ProcessEvent({TRUE})
    \/ Update({daemon})
    \/ Paint

SpecLeftRight == InitLeftRight /\ [][NextLeftRight]_vars

\* C23: x_scroll is never negative; Left in Main mode sets it to
\* max(0, x_scroll - 5), Right in Main mode to x_scroll + 5, and no other
\* step changes it.
C23_ScrollNonNegative ==
    /\ [](self.x_scroll >= 0)
    /\ [][/\ Pressing(MAIN, Keys.MOVE_LEFT) =>
                self'.x_scroll = IF self.x_scroll - 5 > 0 THEN self.x_scroll - 5 ELSE 0
          /\ Pressing(MAIN, Keys.MOVE_RIGHT) => self'.x_scroll = self.x_scroll + 5
          /\ ~Pressing(MAIN, Keys.MOVE_LEFT \cup Keys.MOVE_RIGHT) =>
                self'.x_scroll = self.x_scroll]_vars

\* Left was just pressed in Main mode with the table scrolled by 10: the
\* scroll is 5
C23_Witness ==
    /\ pc = "events"
    /\ event = Some(KeyboardEvent("left"))
    /\ self.state = MAIN
    /\ self.x_scroll = 5
    /\ self.refresh

(***************************************************************************)
(* SpecModes: the collaborator always lists the same download; the user    *)
(* opens the help, the sort panel and the remove panel, moves down in the  *)
(* panels, confirms and cancels; the remove command may fail, and Enter in *)
(* the remove panel raises IndexError on an index left by the sort panel.  *)
(***************************************************************************)
InitModes ==
    /\ InitRun
    /\ NoScroller
    /\ daemon = Queue(1)

NextModes ==
    \/ SetScreen({MaxHeight} \X {MaxWidth})
    \/ BeginFrame
    \/ GetEvent(Key({"h", "F6", "F9", "down", "enter", "esc"}))
    \/ ProcessEvent(BOOLEAN)
    \/ Update({daemon})
    \/ Paint

SpecModes == InitModes /\ [][NextModes]_vars

\* C24: x_offset is 0 in Main and Help mode, the sort panel's width + 1 in
\* SelectSort mode and the remove panel's width + 1 in RemoveConfirm mode,
\* in every state, also after an event that raised.
C24_OffsetMatchesMode ==
    /\ self.state \in {MAIN, HELP} => self.x_offset = 0
    /\ self.state = SELECT_SORT => self.x_offset = width_select_sort + 1
    /\ self.state = REMOVE_ASK => self.x_offset = width_remove_ask + 1

\* Enter in the remove panel has just raised IndexError on the index 4 that
\* the sort panel left: the panel is still open and the table still shifted
C24_Witness ==
    /\ pc = "events"
    /\ event = Some(KeyboardEvent("enter"))
    /\ error = "IndexError"
    /\ self.state = REMOVE_ASK
    /\ self.side_focused = 4
    /\ self.x_offset = 24

\* C26: whenever an event is being processed, the rows are the texts of
\* the cached task list, row by row in the same order; the list and the
\* rows change only in the update of a frame, which ends the run or is
\* followed by a paint of the new rows before the next event.
C26_RowsMatchData ==
    /\ [](pc = "process" =>
            /\ Len(self.rows) = Len(self.data)
            /\ \A i \in 1..Len(self.data) : \A c \in 1..NColumns :
                  self.rows[i][c] = get_text(columns_order[c], self.data[i]))
    /\ [][(self'.rows # self.rows \/ self'.data # self.data) =>
             /\ pc = "update"
             /\ pc' = "done" \/ (pc' = "paint" /\ self'.refresh)]_vars

\* PriorityUp is being processed on the second of two tasks, listed in the
\* opposite order since the start, after an event of the same frame
\* changed the sort and before the list is sorted again
C26_Witness ==
    /\ Pressing(MAIN, Keys.PRIORITY_UP)
    /\ <<self.sort, self.reverse>> # previous_sort
    /\ Len(self.data) = 2
    /\ self.focused = 1
    /\ self.data[1].gid = 2

(***************************************************************************)
(* SpecRemove: the collaborator lists two downloads, in this order or in   *)
(* the opposite one; the user moves the focus, opens the help, the sort    *)
(* panel and the remove panel, moves down in the panels, confirms and      *)
(* cancels; the remove command may fail.                                   *)
(***************************************************************************)
InitRemove ==
    /\ InitRun
    /\ NoScroller
    /\ daemon = Queue(2)

NextRemove ==
    \/ SetScreen({MaxHeight} \X {MaxWidth})
    \/ BeginFrame
    \/ GetEvent(Key({"h", "F6", "F9", "down", "enter", "esc"}))
    \/ ProcessEvent(BOOLEAN)
    \/ Update({daemon, Reverse(daemon)})
    \/ Paint

SpecRemove == InitRemove /\ [][NextRemove]_vars

\* some call of the last event is a remove
Removing == \E i \in 1..Len(calls) : calls[i].method = "remove"

\* C25 as stated: a remove is issued only by Enter in RemoveConfirm mode,
\* as one call on the followed task; RemoveConfirm is entered following the
\* task at the focus index, and that task stays followed while the panel is
\* open; Cancel returns to Main without a call; a remove is issued at most
\* once per entry into RemoveConfirm: the step that issues it leaves the
\* panel.
C25_AsStated ==
    [][/\ Removing' =>
             /\ Pressing(REMOVE_ASK, Keys.ENTER)
             /\ self.follow # None
             /\ Len(calls') = 1
             /\ calls'[1].gid = self.follow[1].gid
       /\ (self.state # REMOVE_ASK /\ self'.state = REMOVE_ASK) =>
             /\ Pressing(MAIN, Keys.REMOVE_ASK)
             /\ 0 <= self.focused /\ self.focused < Len(self.data)
             /\ self'.follow = Some(self.data[self.focused + 1])
       /\ (self.state = REMOVE_ASK /\ self'.state = REMOVE_ASK) =>
             self'.follow = self.follow
       /\ Pressing(REMOVE_ASK, Keys.CANCEL) =>
             self'.state = MAIN /\ calls' = <<>>
       /\ Removing' => self'.state = MAIN]_vars

\* C25: a remove is issued only by Enter in RemoveConfirm mode, as one call
\* on the followed task; RemoveConfirm is entered following the task at the
\* focus index, and that task stays followed while the panel is open;
\* Cancel returns to Main without a call; a remove that returns is issued
\* at most once per entry into RemoveConfirm: the step that issues it
\* leaves the panel unless the command raised.
C25_RemoveOnlyOnEnter ==
    [][/\ Removing' =>
             /\ Pressing(REMOVE_ASK, Keys.ENTER)
             /\ self.follow # None
             /\ Len(calls') = 1
             /\ calls'[1].gid = self.follow[1].gid
       /\ (self.state # REMOVE_ASK /\ self'.state = REMOVE_ASK) =>
             /\ Pressing(MAIN, Keys.REMOVE_ASK)
             /\ 0 <= self.focused /\ self.focused < Len(self.data)
             /\ self'.follow = Some(self.data[self.focused + 1])
       /\ (self.state = REMOVE_ASK /\ self'.state = REMOVE_ASK) =>
             self'.follow = self.follow
       /\ Pressing(REMOVE_ASK, Keys.CANCEL) =>
             self'.state = MAIN /\ calls' = <<>>
       /\ (Removing' /\ error' = "none") => self'.state = MAIN]_vars

\* the remove panel was opened on the second row, and Enter has removed
\* the task of that row
C25_Witness ==
    /\ pc = "events"
    /\ event = Some(KeyboardEvent("enter"))
    /\ error = "none"
    /\ self.state = MAIN
    /\ self.focused = 1
    /\ Len(self.data) = 2
    /\ Len(calls) = 1
    /\ calls[1].method = "remove"
    /\ calls[1].gid = self.data[2].gid

(***************************************************************************)
(* SpecHeaderScroll: a terminal wide enough for all the columns; the user  *)
(* scrolls left and right and clicks on the header line.                   *)
(***************************************************************************)
InitHeaderScroll ==
    /\ InitRun
    /\ NoScroller
    /\ daemon = Queue(1)

NextHeaderScroll ==
    \/ SetScreen({MaxHeight} \X {MaxWidth})
    \/ BeginFrame
    \/ GetEvent(Key({"left"} \cup IF self.x_scroll < MaxXScroll THEN {"right"} ELSE {})
                \cup HeaderClicks(self, {12, 50}))
    \/ ProcessEvent({TRUE})
    \/ Update({daemon})
    \/ Paint

SpecHeaderScroll == InitHeaderScroll /\ [][NextHeaderScroll]_vars

\* C27: in Main mode, at every horizontal scroll and every x of the
\* screen, the column that a header click at x resolves to is the column
\* whose header is painted at x.
C27_ClickMatchesPaint ==
    (pc # "start" /\ self.state = MAIN) =>
        \A x \in 0..(self.width - 1) :
            get_column_at_x(self, x) = painted_column(self, x)

=============================================================================
